---- MODULE Spec2Model ----
(***************************************************************************)
(* Trip Detection Engine (src/src/services/tripDetection.ts).              *)
(*                                                                         *)
(* Units.  Geo samples lie on the equator (lat = 0); a longitude is an     *)
(* integer number of 1e-5 degrees.  Distances are integers in millimetres, *)
(* times are integers in milliseconds.  A Date is [kind |-> "Date", ms],   *)
(* the ISO-8601 string JSON.stringify makes of it is [kind |-> "String",   *)
(* ms]: only the former has toISOString()/getTime().                       *)
(*                                                                         *)
(* A path array is a heap object: pathHeap[ref] is its content and a       *)
(* trip's path field [ref |-> r, val |-> <<>>] refers to it.  A trip that  *)
(* came out of JSON.parse owns its array: [ref |-> 0, val |-> content].    *)
(***************************************************************************)
EXTENDS Integers, Sequences, FiniteSets, TLC

\* ---------------------------------------------------------------- bounds
MaxSamples == 4        \* geo samples delivered in one behaviour
MaxWatches == 2        \* location watches created in one behaviour
MaxSyncCalls == 2      \* syncPendingTrips() calls in one behaviour
MaxRecords == 2        \* trips handed to record() in SpecPersist
MaxMotion == 2         \* 'devicemotion' events in one behaviour
MaxErrors == 2         \* location errors in one behaviour

\* --------------------------------------------------------------- inputs
Lngs == {0, 5, 100, 200}            \* longitudes, 1e-5 degrees: 0 m, 5.6 m,
                                    \* 111 m and 222 m east of the origin
Dts == {60000, 300000, 360000}      \* time between two geo samples, ms
SessionLngs == {0, 200}             \* the same, for the runs with several
SessionDts == {300000, 360000}      \* tracking sessions
StopDts == {360000}                 \* every sample 6 minutes after the last
\* The codes of a GeolocationPositionError.
ErrorCodes == {"PERMISSION_DENIED", "POSITION_UNAVAILABLE", "TIMEOUT"}
\* 'devicemotion' events of the tracking-session runs: 1 m/s^2 along z, or
\* no acceleration (Null)
SessionEvents == {[acceleration |-> [x |-> 0, y |-> 0, z |-> 10]],
                  [null |-> TRUE]}
\* Inputs of the classifier runs.  Distances in mm and elapsed times in ms:
\* over 360 s, 500 m is 5 km/h, 1500 m 15 km/h, 4000 m 40 km/h and 8000 m
\* 80 km/h.
SpeedDistances == {0, 499999, 500000, 1499999, 1500000, 3999999, 4000000,
                   7999999, 8000000, 9000000}
SpeedTimes == {0, 360000}
AllMotions == [{"isWalking", "isCycling", "isVehicleWithStops",
                "isSmoothVehicle"} -> BOOLEAN]
\* Seconds-scale gaps of the second path point: 222 m in 5 s is 160 km/h,
\* in 15 s 53 km/h, in 30 s 27 km/h, in 60 s 13 km/h, in 360 s 2.2 km/h.
PathDts == {5000, 15000, 30000, 60000, 360000}
\* Accelerations of magnitude 0, 0.8, 1, 2, 3 and 6 m/s^2, in tenths.
WindowAccels ==
  {[acceleration |-> [x |-> 0, y |-> 0, z |-> 0]],
   [acceleration |-> [x |-> 0, y |-> 0, z |-> 8]],
   [acceleration |-> [x |-> 6, y |-> 8, z |-> 0]],
   [acceleration |-> [x |-> -20, y |-> 0, z |-> 0]],
   [acceleration |-> [x |-> 18, y |-> 0, z |-> -24]],
   [acceleration |-> [x |-> 0, y |-> 60, z |-> 0]]}
WindowLens == {9, 10, 11}
WindowSplits == {5, 6, 11}
\* Motion Windows of n readings: k times a (all n for k = 11), then rest.
MotionWindows ==
  LET rest == [acceleration |-> [x |-> 0, y |-> 0, z |-> 0]]
  IN {[i \in 1..n |-> IF i <= k THEN a ELSE rest] :
        <<n, k, a>> \in WindowLens \X WindowSplits \X WindowAccels}
\* Motion Windows of 48, 49 and 50 readings (one short of full, and full),
\* whose first reading, or first 49 readings, differ from the rest.
FullWindowLens == {48, 49, 50}
FullWindowSplits == {1, 49}
FullWindows ==
  LET rest == [acceleration |-> [x |-> 0, y |-> 0, z |-> 0]]
  IN {[i \in 1..n |-> IF i <= k THEN a ELSE rest] :
        <<n, k, a>> \in FullWindowLens \X FullWindowSplits \X WindowAccels}
\* 'devicemotion' events of the window runs: one of the accelerations
\* above, or no acceleration (Null).
WindowEvents == WindowAccels \cup {[null |-> TRUE]}
\* Inputs of the CO2 calculator: every transport mode, distances in km.
TransportModes == {"walk", "bike", "car", "bus", "train", "other"}
EmissionDistances == 0..20
\* The callbacks the application registers: A and B.
Callbacks == {1, 2}
AuthOutcomes == {"user", "none", "throws"}      \* supabase.auth.getUser()
InsertOutcomes == {"ok", "error", "throws"}     \* supabase.from().insert()
\* navigator.permissions.query(): the permission state, or the query throws
LocationOutcomes == {"granted", "prompt", "denied", "throws"}
\* requestMotionPermission: DeviceMotionEvent.requestPermission() exists
\* and is awaited ("request"); without it the event is "available" in
\* window or "unsupported"
MotionPlatforms == {"request", "available", "unsupported"}
\* DeviceMotionEvent.requestPermission() resolves "granted" or "denied" or
\* throws
MotionAnswers == {"granted", "denied", "throws"}

\* ------------------------------------------------------------ constants
MIN_DISTANCE_THRESHOLD == 200000    \* 200 m, in mm
STOP_DURATION_THRESHOLD == 300000   \* 5 * 60 * 1000 ms
STOP_DISTANCE == 10000              \* 10 m, in mm
MOTION_WINDOW == 50                 \* motion readings kept
MIN_MOTION_SAMPLES == 10            \* readings analyzeMotionPattern needs
MM_PER_UNIT == 1111949              \* R * pi / 180 * 1e-5 deg, in micrometres

Null == [null |-> TRUE]

VARIABLES
  isTracking,        \* state.isTracking
  currentTrip,       \* state.currentTrip: Null or the draft
  lastPosition,      \* state.lastPosition: Null or a geo sample
  watchId,           \* state.watchId: 0 (null) or a watch handle
  motionData,        \* state.motionData
  isMotionPermissionGranted,
  onTripDetectedCb,  \* callbacks.onTripDetected: 0 (unset) or a callback
  onLocationUpdateCb, \* callbacks.onLocationUpdate: 0 (unset) or a callback
  registered,        \* history: the callback last handed to onTripDetected
                     \* and to onLocationUpdate (0: none yet)
  pathHeap,          \* the path arrays allocated by startTrip
  watches,           \* the browser's active geolocation watches
  motionListeners,   \* number of 'devicemotion' listeners on window
  motionPlatform,    \* what DeviceMotionEvent is in this browser
  startCalls,        \* startTracking() calls suspended at an await: how
                     \* many in the location permission query (query) and
                     \* in DeviceMotionEvent.requestPermission() (motion),
                     \* and those whose requestMotionPermission has
                     \* returned and whose `await` of it (line 81) has yet
                     \* to resume, in the order they will (ready, each with
                     \* what its motion permission request came to)
  pendingTrips,      \* localStorage['pendingTrips']
  remoteTrips,       \* rows of the remote 'trips' table
  endTrips,          \* endTrip() calls suspended in saveTripToDatabase
  endResumes,        \* endTrip() calls whose saveTripToDatabase has
                     \* returned and whose `await` of it (line 222) has yet
                     \* to resume, in the order they will: their trips
  syncs,             \* syncPendingTrips() calls in progress
  delivered,         \* history: calls of the trip-detected callback
  located,           \* history: the last call of the position callback
  recorded,          \* history: trips endTrip handed to saveTripToDatabase
  discarded,         \* history: drafts that stopTracking() threw away
  lastBranch,        \* history: branch the last geo sample took
  lastStart,         \* history of the last startTracking() call that
                     \* awaited the permissions: location denied, the call
                     \* threw, what the motion permission request came to
  classified,        \* history: the last direct call of the classifier
  trail,             \* history of the geo samples: the last one delivered,
                     \* the coordinates of the first, whether two
                     \* consecutive ones were more than 200 m apart, and
                     \* whether stopTracking() has been called since the
                     \* last one (stopped) or between the last one and
                     \* the one before (resumed)
  counts             \* history: numbers of samples and calls so far

vars == <<isTracking, currentTrip, lastPosition, watchId, motionData,
          isMotionPermissionGranted, onTripDetectedCb, onLocationUpdateCb,
          registered,
          pathHeap, watches, motionListeners, motionPlatform, startCalls,
          pendingTrips, remoteTrips, endTrips, endResumes, syncs, delivered,
          located, recorded,
          discarded, lastBranch, lastStart, classified, trail, counts>>

engineVars == <<isTracking, currentTrip, lastPosition, watchId, motionData,
                isMotionPermissionGranted, pathHeap, watches,
                motionListeners, motionPlatform, startCalls, discarded,
                lastBranch, lastStart, classified, trail>>

storeVars == <<pendingTrips, remoteTrips>>

callbackVars == <<onTripDetectedCb, onLocationUpdateCb, registered>>

\* ------------------------------------------------------------- geometry
Abs(n) == IF n < 0 THEN -n ELSE n

\* Haversine distance of two points of the equator, in mm: with both
\* latitudes 0, a = sin^2(dLng/2) and c = |dLng| in radians, so R * c.
CalculateDistance(lat1, lon1, lat2, lon2) ==
  (Abs(lon2 - lon1) * MM_PER_UNIT) \div 1000

RECURSIVE SumSegments(_, _)
SumSegments(path, i) ==
  IF i > Len(path) THEN 0
  ELSE CalculateDistance(path[i - 1].lat, path[i - 1].lng,
                         path[i].lat, path[i].lng)
       + SumSegments(path, i + 1)

\* Sum of the consecutive segments; the code divides by 1000 (m to km),
\* here the value stays the integer number of mm (km * 10^6).
CalculateTotalDistance(path) == SumSegments(path, 2)

PathPoint(position) ==
  [lat |-> position.lat, lng |-> position.lng,
   timestamp |-> position.timestamp]

DateOf(ms) == [kind |-> "Date", ms |-> ms]

Deref(heap, path) == IF path.ref = 0 THEN path.val ELSE heap[path.ref]

\* --------------------------------------------------------- classifier
NeutralMotion ==
  [isWalking |-> FALSE, isCycling |-> FALSE,
   isVehicleWithStops |-> FALSE, isSmoothVehicle |-> FALSE]

RECURSIVE SumSeq(_)
SumSeq(s) == IF s = <<>> THEN 0 ELSE Head(s) + SumSeq(Tail(s))

\* Accelerations are integers in tenths of m/s^2.  Math.sqrt on the sums
\* of squares that occur: the samples are chosen with an integer magnitude.
Sqrt(n) == CHOOSE r \in 0..n : r * r = n

Magnitude(data) ==
  Sqrt(data.acceleration.x * data.acceleration.x
       + data.acceleration.y * data.acceleration.y
       + data.acceleration.z * data.acceleration.z)

\* Variant of analyzeMotionPattern without the minimum number of readings.
AnalyzeMotionPattern_NoMinimum(md) ==
  IF Len(md) = 0 THEN NeutralMotion
  ELSE LET n == Len(md)
           mags == [i \in 1..n |-> Magnitude(md[i])]
           S == SumSeq(mags)
           Q == SumSeq([i \in 1..n |-> mags[i] * mags[i]])
           V == n * Q - S * S
       IN [isWalking |-> S > 10 * n /\ S < 30 * n /\ 2 * V > 100 * n * n,
           isCycling |-> 2 * S > 10 * n /\ S < 20 * n /\ 10 * V < 300 * n * n,
           isVehicleWithStops |-> V > 100 * n * n /\ 10 * S > 80 * n,
           isSmoothVehicle |-> 10 * V < 200 * n * n /\ S < 10 * n]

\* With S the sum and Q the sum of squares of the n magnitudes (tenths),
\* avgAcceleration is S / (10 n) and calculateVariance gives the population
\* variance (n Q - S^2) / (100 n^2); each test is the code's comparison
\* multiplied out.
AnalyzeMotionPattern(md) ==
  IF Len(md) < MIN_MOTION_SAMPLES THEN NeutralMotion
  ELSE LET n == Len(md)
           mags == [i \in 1..n |-> Magnitude(md[i])]
           S == SumSeq(mags)
           Q == SumSeq([i \in 1..n |-> mags[i] * mags[i]])
           V == n * Q - S * S
       IN [isWalking |-> S > 10 * n /\ S < 30 * n /\ 2 * V > 100 * n * n,
           isCycling |-> 2 * S > 10 * n /\ S < 20 * n /\ 10 * V < 300 * n * n,
           isVehicleWithStops |-> V > 100 * n * n /\ 10 * S > 80 * n,
           isSmoothVehicle |-> 10 * V < 200 * n * n /\ S < 10 * n]

\* Variant of the rule table whose band edges belong to the lower band.
SpeedMode_InclusiveBounds(totalDistance, totalTime, m) ==
  LET Below(k) == \/ totalTime < 0
                  \/ totalTime > 0 /\ 36 * totalDistance <= 10 * k * totalTime
  IN IF Below(5) THEN (IF m.isWalking THEN "walk" ELSE "other")
     ELSE IF Below(15) THEN (IF m.isCycling THEN "bike" ELSE "walk")
     ELSE IF Below(40) THEN (IF m.isVehicleWithStops THEN "bus" ELSE "car")
     ELSE IF Below(80) THEN (IF m.isSmoothVehicle THEN "train" ELSE "car")
     ELSE "train"

\* The rule table of detectTransportMode for a path of totalDistance mm
\* covered in totalTime ms.  avgSpeed = (mm / ms) * 3.6 km/h, so
\* avgSpeed < k iff 36 * mm < 10 * k * ms.  A zero elapsed time makes
\* avgSpeed Infinity or NaN: every test is false.  A negative one makes it
\* negative or -0: every test is true.
SpeedMode(totalDistance, totalTime, m) ==
  LET Below(k) == \/ totalTime < 0
                  \/ totalTime > 0 /\ 36 * totalDistance < 10 * k * totalTime
  IN IF Below(5) THEN (IF m.isWalking THEN "walk" ELSE "other")
     ELSE IF Below(15) THEN (IF m.isCycling THEN "bike" ELSE "walk")
     ELSE IF Below(40) THEN (IF m.isVehicleWithStops THEN "bus" ELSE "car")
     ELSE IF Below(80) THEN (IF m.isSmoothVehicle THEN "train" ELSE "car")
     ELSE "train"

DetectTransportMode(path, md) ==
  IF Len(path) < 2 THEN "other"
  ELSE SpeedMode(CalculateTotalDistance(path),
                 path[Len(path)].timestamp - path[1].timestamp,
                 AnalyzeMotionPattern(md))

\* Variant of handleMotionData that drops the new reading on overflow.
HandleMotionData_DropsNewest(md, event) ==
  IF event = Null THEN md
  ELSE LET pushed == Append(md, [acceleration |-> event.acceleration])
       IN IF Len(pushed) > MOTION_WINDOW
          THEN SubSeq(pushed, 1, Len(pushed) - 1) ELSE pushed

\* handleMotionData for one 'devicemotion' event: an event without
\* acceleration is ignored, the window keeps the last 50 readings.  (The
\* reading's timestamp and rotation rate are never read and are left out.)
HandleMotionData(md, event) ==
  IF event = Null THEN md
  ELSE LET pushed == Append(md, [acceleration |-> event.acceleration])
       IN IF Len(pushed) > MOTION_WINDOW THEN Tail(pushed) ELSE pushed

\* Every registered listener handles the event.
RECURSIVE Dispatch(_, _, _)
Dispatch(md, event, listeners) ==
  IF listeners = 0 THEN md
  ELSE Dispatch(HandleMotionData(md, event), event, listeners - 1)

\* ------------------------------------------------------ persistence
\* JSON.parse(JSON.stringify(trip)): the Dates become ISO strings and stay
\* strings, the path becomes an array of its own with the content the
\* shared array has at this moment.
Serialize(heap, trip) ==
  [trip EXCEPT !.startTime = [kind |-> "String", ms |-> trip.startTime.ms],
               !.endTime = [kind |-> "String", ms |-> trip.endTime.ms],
               !.path = [ref |-> 0, val |-> Deref(heap, trip.path)]]

\* trip.startTime.toISOString(), trip.endTime.getTime(): a TypeError on a string.
CanBuildRecord(trip) ==
  trip.startTime.kind = "Date" /\ trip.endTime.kind = "Date"

\* Math.round(x / 60000) for x >= 0.
RoundMinutes(ms) == (ms + 30000) \div 60000

\* The object handed to supabase.from('trips').insert().
RemoteRecord(trip) ==
  [origin_name |-> trip.origin.name,
   origin_lat |-> trip.origin.coordinates.lat,
   origin_lng |-> trip.origin.coordinates.lng,
   destination_name |-> trip.destination.name,
   destination_lat |-> trip.destination.coordinates.lat,
   destination_lng |-> trip.destination.coordinates.lng,
   start_time |-> trip.startTime.ms,
   end_time |-> trip.endTime.ms,
   distance |-> trip.distance,
   duration |-> RoundMinutes(trip.endTime.ms - trip.startTime.ms),
   mode |-> trip.mode,
   purpose |-> "other", companion |-> "alone",
   is_auto_detected |-> TRUE, is_confirmed |-> FALSE]

AbsentQueue == [kind |-> "absent", trips |-> <<>>]

\* A try block is <<first, last>>, the lines of its body.  An exception
\* that arises at one of the lines `thrownAt` of a function leaves the
\* function when no try block of the function holds that line.
Escapes(tryBlocks, thrownAt) ==
  \E line \in thrownAt : \A b \in tryBlocks : line < b[1] \/ line > b[2]

\* The try of saveToLocalStorage (lines 380-386).
SaveToLocalStorageTry == {<<381, 385>>}

\* The try of saveTripToDatabase (lines 342-373).
SaveTripToDatabaseTry == {<<343, 372>>}

\* The try of syncPendingTrips (lines 398-405).
SyncPendingTripsTry == {<<399, 404>>}

\* The lines of saveToLocalStorage at which an exception arises: lsOk =
\* FALSE is getItem (line 381) or setItem (line 384) throwing, and
\* JSON.parse (line 382) throws on a malformed value.
StorageThrownAt(stored, lsOk) ==
  IF ~lsOk THEN {381, 384}
  ELSE IF stored.kind = "malformed" THEN {382}
  ELSE {}

\* saveToLocalStorage throws inside its try; the stored value is then
\* what it was.
StorageThrows(stored, lsOk) == StorageThrownAt(stored, lsOk) # {}

SaveToLocalStorage(stored, heap, trip, lsOk) ==
  IF StorageThrows(stored, lsOk) THEN stored
  ELSE [kind |-> "json", trips |-> Append(stored.trips, Serialize(heap, trip))]

\* Variant of saveToLocalStorage without its try/catch.
SaveToLocalStorageEscapes_NoCatch(stored, lsOk) ==
  Escapes({}, StorageThrownAt(stored, lsOk))

\* Whether an exception leaves saveToLocalStorage: what getItem,
\* JSON.parse or setItem throws arises inside the try, and the catch
\* (lines 386-388) logs.
SaveToLocalStorageEscapes(stored, lsOk) ==
  Escapes(SaveToLocalStorageTry, StorageThrownAt(stored, lsOk))

\* Whether saveTripToDatabase rejects, given the lines of its try at which
\* an exception arises: a caught exception runs the catch, which calls
\* saveToLocalStorage at line 375, outside the try.
SaveTripToDatabaseRejects(bodyThrownAt, stored, lsOk) ==
  LET caught == /\ bodyThrownAt # {}
                /\ ~Escapes(SaveTripToDatabaseTry, bodyThrownAt)
      handlerThrownAt ==
        IF caught /\ SaveToLocalStorageEscapes(stored, lsOk) THEN {375}
        ELSE {}
  IN Escapes(SaveTripToDatabaseTry, bodyThrownAt \cup handlerThrownAt)

\* saveTripToDatabase up to its second await.  What the call leaves behind
\* once `await supabase.auth.getUser()` has settled with `auth`: either it
\* is suspended in insert() (done = FALSE) or it is over, having gone
\* through saveToLocalStorage (threw = the storage access threw).  An
\* exception arises at line 343 when getUser() rejects, at line 358 when
\* toISOString() is called on a string, and at line 346 when
\* saveToLocalStorage throws to its caller; rejected = it leaves the call.
SaveAfterGetUser(stored, heap, trip, auth, lsOk) ==
  LET bodyThrownAt ==
        IF auth = "throws" THEN {343}
        ELSE IF auth = "user" THEN (IF CanBuildRecord(trip) THEN {} ELSE {358})
        ELSE IF SaveToLocalStorageEscapes(stored, lsOk) THEN {346}
        ELSE {}
  IN IF auth = "user" /\ CanBuildRecord(trip)
     THEN [done |-> FALSE, stored |-> stored, threw |-> FALSE,
           rejected |-> FALSE]
     ELSE [done |-> TRUE,
           stored |-> SaveToLocalStorage(stored, heap, trip, lsOk),
           threw |-> StorageThrows(stored, lsOk),
           rejected |-> SaveTripToDatabaseRejects(bodyThrownAt, stored, lsOk)]

\* saveTripToDatabase after insert() has settled with `ins`: an exception
\* arises at line 350 when insert() rejects, and at line 371 when
\* saveToLocalStorage throws to its caller.
SaveAfterInsert(stored, remote, heap, trip, ins, lsOk) ==
  LET bodyThrownAt ==
        IF ins = "throws" THEN {350}
        ELSE IF ins = "error" /\ SaveToLocalStorageEscapes(stored, lsOk)
        THEN {371}
        ELSE {}
  IN IF ins = "ok"
     THEN [stored |-> stored, remote |-> Append(remote, RemoteRecord(trip)),
           threw |-> FALSE, rejected |-> FALSE]
     ELSE [stored |-> SaveToLocalStorage(stored, heap, trip, lsOk),
           remote |-> remote, threw |-> StorageThrows(stored, lsOk),
           rejected |-> SaveTripToDatabaseRejects(bodyThrownAt, stored, lsOk)]

\* ------------------------------------------------------ segmentation
\* Variant of startTrip that takes the origin from the current sample.
StartTripDraft_FromCurrent(startPosition, currentPosition, ref) ==
  [origin |-> [name |-> "Current Location",
               coordinates |-> [lat |-> currentPosition.lat,
                                lng |-> currentPosition.lng]],
   startTime |-> DateOf(currentPosition.timestamp),
   path |-> [ref |-> ref, val |-> <<>>]]

StartTripDraft(startPosition, currentPosition, ref) ==
  [origin |-> [name |-> "Current Location",
               coordinates |-> [lat |-> startPosition.lat,
                                lng |-> startPosition.lng]],
   startTime |-> DateOf(startPosition.timestamp),
   path |-> [ref |-> ref, val |-> <<>>]]

\* Variant of startTrip whose path begins at the current sample.
StartTripPath_CurrentOnly(startPosition, currentPosition) ==
  <<PathPoint(currentPosition)>>

StartTripPath(startPosition, currentPosition) ==
  <<PathPoint(startPosition), PathPoint(currentPosition)>>

\* The DetectedTrip endTrip builds: the draft's fields (the path array is
\* shared, not copied) plus destination, endTime, distance and mode.
EndTripRecord(draft, heap, md, endPosition) ==
  [origin |-> draft.origin,
   startTime |-> draft.startTime,
   path |-> draft.path,
   destination |-> [name |-> "Current Location",
                    coordinates |-> [lat |-> endPosition.lat,
                                     lng |-> endPosition.lng]],
   endTime |-> DateOf(endPosition.timestamp),
   distance |-> CalculateTotalDistance(Deref(heap, draft.path)),
   mode |-> DetectTransportMode(Deref(heap, draft.path), md)]

\* Variant of updateTrip that puts the new point in front.
UpdateTripPath_Prepend(path, position) == <<PathPoint(position)>> \o path

\* updateTrip: path.push(point).
\* Variant of updateTrip that does not push the sample.
UpdateTripPath_SkipsPoint(path, position) == path

UpdateTripPath(path, position) == Append(path, PathPoint(position))

\* Variant of handlePositionUpdate that opens a draft beyond 100 m.
Branch_LowThreshold(trip, last, position) ==
  IF last = Null THEN "first"
  ELSE LET distance == CalculateDistance(last.lat, last.lng,
                                         position.lat, position.lng)
           timeDiff == position.timestamp - last.timestamp
       IN IF trip = Null /\ 2 * distance > MIN_DISTANCE_THRESHOLD THEN "start"
          ELSE IF trip # Null /\ distance < STOP_DISTANCE
                  /\ timeDiff > STOP_DURATION_THRESHOLD THEN "end"
          ELSE IF trip # Null THEN "update"
          ELSE "none"

\* Which branch of handlePositionUpdate a sample takes.
Branch(trip, last, position) ==
  IF last = Null THEN "first"
  ELSE LET distance == CalculateDistance(last.lat, last.lng,
                                         position.lat, position.lng)
           timeDiff == position.timestamp - last.timestamp
       IN IF trip = Null /\ distance > MIN_DISTANCE_THRESHOLD THEN "start"
          ELSE IF trip # Null /\ distance < STOP_DISTANCE
                  /\ timeDiff > STOP_DURATION_THRESHOLD THEN "end"
          ELSE IF trip # Null THEN "update"
          ELSE "none"

Bump(field) == [counts EXCEPT ![field] = @ + 1]

\* Variant of endTrip that saves the trip before it notifies the callback.
EndTripEmit_RecordFirst(dl, rl, cb, trip, seen) ==
  LET r1 == Append(rl, [trip |-> trip, seen |-> seen, emitted |-> Len(dl)])
      d1 == IF cb = 0 THEN dl
            ELSE Append(dl, [cb |-> cb, trip |-> trip, seen |-> seen,
                             handed |-> Len(r1)])
  IN [delivered |-> d1, recorded |-> r1]

\* endTrip from the callback on: the callback, if one is registered, is
\* called with the trip (line 219), then saveTripToDatabase is called with
\* it (line 222).  Each entry of the two histories keeps how long the other
\* history was when the entry was made.
EndTripEmit(dl, rl, cb, trip, seen) ==
  LET d1 == IF cb = 0 THEN dl
            ELSE Append(dl, [cb |-> cb, trip |-> trip, seen |-> seen,
                             handed |-> Len(rl)])
      r1 == Append(rl, [trip |-> trip, seen |-> seen, emitted |-> Len(d1)])
  IN [delivered |-> d1, recorded |-> r1]

\* Variant of handlePositionUpdate that keeps prev when a trip is closed.
LastPositionAfter_KeepOnClose(b, last, position) ==
  IF b = "end" THEN last ELSE position

\* Variant of handlePositionUpdate that does not store the first sample.
LastPositionAfter_SkipFirst(b, last, position) ==
  IF b = "first" THEN last ELSE position

\* state.lastPosition after a sample that took branch b: the sample, set
\* in the first-sample branch (line 134) and after the others (line 160).
LastPositionAfter(b, last, position) == position

\* History of the samples, kept apart from the state the handler reads.
\* (Distance in micrometres.)
TrailAfter(last, position) ==
  [sample |-> position,
   stopped |-> FALSE,
   resumed |-> trail.stopped,
   first |-> IF trail.first = Null
             THEN [lat |-> position.lat, lng |-> position.lng]
             ELSE trail.first,
   far |-> \/ trail.far
           \/ /\ last # Null
              /\ Abs(position.lng - last.lng) * MM_PER_UNIT > 200 * 1000 * 1000]

\* History: some saveToLocalStorage call has thrown.
NoteStorage(threw) == IF threw THEN [counts EXCEPT !.storageThrew = 1] ELSE counts

\* History: some saveTripToDatabase call has rejected.
NoteRejected(c, rejected) == IF rejected THEN [c EXCEPT !.rejected = 1] ELSE c

\* handlePositionUpdate: the position callback is called first.  endTrip
\* runs up to its await: the trip callback is called, saveTripToDatabase
\* is entered and suspends in getUser(), and control returns here with
\* the draft still in place.
HandlePositionUpdate(position) ==
  LET b == Branch(currentTrip, lastPosition, position) IN
  /\ located' = IF onLocationUpdateCb = 0 THEN located
                ELSE [cb |-> onLocationUpdateCb, position |-> position]
  /\ lastBranch' = b
  /\ lastPosition' = LastPositionAfter(b, lastPosition, position)
  /\ trail' = TrailAfter(lastPosition, position)
  /\ counts' = Bump("samples")
  /\ CASE b = "start" ->
            /\ pathHeap' = Append(pathHeap, StartTripPath(lastPosition, position))
            /\ currentTrip' = StartTripDraft(lastPosition, position, Len(pathHeap) + 1)
            /\ UNCHANGED <<endTrips, delivered, recorded>>
       [] b = "end" ->
            LET trip == EndTripRecord(currentTrip, pathHeap, motionData, position)
                out == EndTripEmit(delivered, recorded, onTripDetectedCb,
                                   trip, Deref(pathHeap, trip.path))
            IN /\ delivered' = out.delivered
               /\ recorded' = out.recorded
               /\ endTrips' = Append(endTrips, [trip |-> trip, pc |-> "getUser"])
               /\ UNCHANGED <<currentTrip, pathHeap>>
       [] b = "update" ->
            /\ pathHeap' = [pathHeap EXCEPT ![currentTrip.path.ref] =
                              UpdateTripPath(@, position)]
            /\ UNCHANGED <<currentTrip, endTrips, delivered, recorded>>
       [] OTHER -> UNCHANGED <<currentTrip, pathHeap, endTrips, delivered,
                               recorded>>
  /\ UNCHANGED <<isTracking, watchId, motionData, isMotionPermissionGranted,
                 callbackVars, watches, motionListeners, startCalls,
                 motionPlatform, pendingTrips, remoteTrips, endResumes, syncs,
                 discarded, lastStart, classified>>

\* A continuation is queued as a job of the current turn of the event
\* loop: an async function has returned and the `await` of its caller has
\* yet to resume (lines 81, 222, 401).  The browser dispatches its events
\* (geo samples, location errors, 'devicemotion') as tasks, and a task
\* starts only when no job is queued.
JobQueued ==
  \/ startCalls.ready # <<>>
  \/ endResumes # <<>>
  \/ \E k \in 1..Len(syncs) : syncs[k].pc = "saved"

\* A geo sample the location watch delivers.
GeoSample(lngs, dts) ==
  /\ ~JobQueued
  /\ watches # {}
  /\ counts.samples < MaxSamples
  /\ \E lng \in lngs, dt \in dts :
       HandlePositionUpdate(
         [lat |-> 0, lng |-> lng,
          timestamp |-> (IF lastPosition = Null THEN 0
                         ELSE lastPosition.timestamp) + dt])

\* A 'devicemotion' event: every listener registered on window handles it.
MotionSample(events) ==
  /\ ~JobQueued
  /\ motionListeners > 0
  /\ counts.motion < MaxMotion
  /\ \E event \in events :
       motionData' = Dispatch(motionData, event, motionListeners)
  /\ counts' = Bump("motion")
  /\ UNCHANGED <<isTracking, currentTrip, lastPosition, watchId,
                 isMotionPermissionGranted, callbackVars, located, pathHeap,
                 motionPlatform, watches, motionListeners, startCalls,
                 pendingTrips, remoteTrips, endTrips, endResumes, syncs,
                 delivered, recorded, discarded, lastBranch, lastStart,
                 classified, trail>>

\* ------------------------------------------------------------- facade
\* The part of the state the facade's calls read and write.
EngineState ==
  [isTracking |-> isTracking, currentTrip |-> currentTrip,
   lastPosition |-> lastPosition, watchId |-> watchId,
   motionData |-> motionData,
   isMotionPermissionGranted |-> isMotionPermissionGranted,
   watches |-> watches, motionListeners |-> motionListeners,
   startCalls |-> startCalls]

SetEngineState(t) ==
  /\ isTracking' = t.isTracking
  /\ currentTrip' = t.currentTrip
  /\ lastPosition' = t.lastPosition
  /\ watchId' = t.watchId
  /\ motionData' = t.motionData
  /\ isMotionPermissionGranted' = t.isMotionPermissionGranted
  /\ watches' = t.watches
  /\ motionListeners' = t.motionListeners
  /\ startCalls' = t.startCalls

\* Variant of startTracking without the isTracking test.
StartTrackingEnter_Always(s) == [s EXCEPT !.startCalls.query = @ + 1]

\* startTracking up to `await this.requestLocationPermission()`: a call
\* made while tracking returns at once, any other call is suspended in the
\* permission query.
StartTrackingEnter(s) ==
  IF s.isTracking THEN s ELSE [s EXCEPT !.startCalls.query = @ + 1]

\* The startTracking() calls suspended at one of their awaits.
Suspended == startCalls.query + startCalls.motion + Len(startCalls.ready)

StartTracking ==
  /\ counts.watches + Suspended < MaxWatches
  /\ SetEngineState(StartTrackingEnter(EngineState))
  /\ UNCHANGED <<counts, callbackVars, located, pathHeap, motionPlatform,
                 pendingTrips, remoteTrips, endTrips, endResumes, syncs,
                 delivered, recorded, discarded, lastBranch, lastStart,
                 classified, trail>>

\* requestLocationPermission: true for the states 'granted' and 'prompt'
\* and when the query throws.
RequestLocationPermission(outcome) == outcome \in {"granted", "prompt", "throws"}

\* requestMotionPermission: the value it leaves in isMotionPermissionGranted.
RequestMotionPermission(outcome) == outcome \in {"granted", "available"}

\* The location permission query of a startTracking() call settles with
\* `location` and the call runs on to its next await.  After a denial it
\* throws.  Otherwise it calls requestMotionPermission, which on the
\* platform "request" suspends in DeviceMotionEvent.requestPermission(),
\* and on the others writes isMotionPermissionGranted and returns, so that
\* the call is suspended at `await this.requestMotionPermission()`.
StartTrackingLocation(location) ==
  /\ startCalls.query > 0
  /\ lastStart' = [denied |-> location = "denied",
                   error |-> ~RequestLocationPermission(location),
                   motion |-> "none"]
  /\ IF ~RequestLocationPermission(location)
     THEN /\ startCalls' = [startCalls EXCEPT !.query = @ - 1]
          /\ UNCHANGED isMotionPermissionGranted
     ELSE IF motionPlatform = "request"
     THEN /\ startCalls' = [startCalls EXCEPT !.query = @ - 1,
                                              !.motion = @ + 1]
          /\ UNCHANGED isMotionPermissionGranted
     ELSE /\ startCalls' = [startCalls EXCEPT !.query = @ - 1,
                                              !.ready =
                                                Append(@, motionPlatform)]
          /\ isMotionPermissionGranted' =
               RequestMotionPermission(motionPlatform)
  /\ UNCHANGED <<isTracking, watchId, watches, counts, motionListeners,
                 currentTrip, lastPosition, motionData, callbackVars, located,
                 pathHeap, motionPlatform, pendingTrips, remoteTrips, endTrips,
                 endResumes, syncs, delivered, recorded, discarded, lastBranch,
                 classified, trail>>

\* DeviceMotionEvent.requestPermission() of a startTracking() call settles
\* with `answer`: requestMotionPermission writes isMotionPermissionGranted
\* and returns, and the call is suspended at
\* `await this.requestMotionPermission()`.
StartTrackingMotion(answer) ==
  /\ startCalls.motion > 0
  /\ startCalls' = [startCalls EXCEPT !.motion = @ - 1,
                                      !.ready = Append(@, answer)]
  /\ isMotionPermissionGranted' = RequestMotionPermission(answer)
  /\ UNCHANGED <<isTracking, watchId, watches, counts, motionListeners,
                 lastStart, currentTrip, lastPosition, motionData,
                 callbackVars, located, pathHeap, motionPlatform, pendingTrips,
                 remoteTrips, endTrips, endResumes, syncs, delivered, recorded,
                 discarded, lastBranch, classified, trail>>

\* The rest of startTracking, from the resumption of
\* `await this.requestMotionPermission()`: the call that has waited longest
\* resumes, and registers a motion listener if isMotionPermissionGranted
\* is true as it reads it now.
StartTrackingResume ==
  /\ startCalls.ready # <<>>
  /\ startCalls' = [startCalls EXCEPT !.ready = Tail(@)]
  /\ isTracking' = TRUE
  /\ LET id == counts.watches + 1 IN
       /\ watchId' = id
       /\ watches' = watches \cup {id}
       /\ counts' = Bump("watches")
  /\ motionListeners' = IF isMotionPermissionGranted
                        THEN motionListeners + 1
                        ELSE motionListeners
  /\ lastStart' = [denied |-> FALSE, error |-> FALSE,
                   motion |-> Head(startCalls.ready)]
  /\ UNCHANGED <<isMotionPermissionGranted, currentTrip, lastPosition,
                 motionData, callbackVars, located, pathHeap, motionPlatform,
                 pendingTrips, remoteTrips, endTrips, endResumes, syncs,
                 delivered, recorded, discarded, lastBranch, classified,
                 trail>>

\* The drafts stopTracking() finds open and not yet closed by endTrip.
Discard ==
  IF currentTrip # Null
     /\ \A r \in 1..Len(recorded) :
          recorded[r].trip.path.ref # currentTrip.path.ref
  THEN discarded \cup {currentTrip}
  ELSE discarded

\* History: stopTracking() is called after the last sample.
TrailStopped ==
  IF trail.sample = Null THEN trail ELSE [trail EXCEPT !.stopped = TRUE]

\* Variant of stopTracking that also forgets the last sample.
StopTrackingState_ForgetsLastPosition(s) ==
  [s EXCEPT !.watches = IF s.watchId # 0 THEN @ \ {s.watchId} ELSE @,
            !.watchId = 0,
            !.isTracking = FALSE,
            !.currentTrip = Null,
            !.lastPosition = Null,
            !.motionData = <<>>]

\* Variant of stopTracking that leaves state.currentTrip in place.
StopTracking_KeepsDraft ==
  /\ watches' = IF watchId # 0 THEN watches \ {watchId} ELSE watches
  /\ watchId' = 0
  /\ isTracking' = FALSE
  /\ motionData' = <<>>
  /\ discarded' = Discard
  /\ trail' = TrailStopped
  /\ UNCHANGED <<currentTrip, lastPosition, isMotionPermissionGranted,
                 callbackVars, located, pathHeap, motionPlatform,
                 motionListeners, startCalls, pendingTrips, remoteTrips,
                 endTrips, endResumes, syncs, delivered, recorded, lastBranch,
                 lastStart, classified, counts>>

\* What stopTracking makes of the engine state.  stopMotionDetection
\* passes removeEventListener a new bound function, which matches no
\* registered listener: motionListeners stays.
StopTrackingState(s) ==
  [s EXCEPT !.watches = IF s.watchId # 0 THEN @ \ {s.watchId} ELSE @,
            !.watchId = 0,
            !.isTracking = FALSE,
            !.currentTrip = Null,
            !.motionData = <<>>]

StopTracking ==
  /\ SetEngineState(StopTrackingState(EngineState))
  /\ discarded' = Discard
  /\ trail' = TrailStopped
  /\ UNCHANGED <<callbackVars, located, pathHeap, motionPlatform, pendingTrips,
                 remoteTrips, endTrips, endResumes, syncs, delivered, recorded,
                 lastBranch, lastStart, classified, counts>>

\* Variant of handleLocationError that stops tracking when the permission
\* has been withdrawn.
HandleLocationError_StopsOnDenied(s, code) ==
  IF code = "PERMISSION_DENIED"
  THEN [s EXCEPT !.watches = IF s.watchId # 0 THEN @ \ {s.watchId} ELSE @,
                 !.watchId = 0,
                 !.isTracking = FALSE,
                 !.currentTrip = Null]
  ELSE s

\* handleLocationError: the error is logged, whatever its code; the state
\* is not written.
HandleLocationError(s, code) == s

\* The error callback of a location watch is called with a
\* GeolocationPositionError.  (History: counts.permissionDenied tells
\* whether the last error was PERMISSION_DENIED.)
LocationError(code) ==
  /\ ~JobQueued
  /\ watches # {}
  /\ counts.errors < MaxErrors
  /\ SetEngineState(HandleLocationError(EngineState, code))
  /\ counts' = [Bump("errors") EXCEPT
                 !.permissionDenied = IF code = "PERMISSION_DENIED" THEN 1
                                      ELSE 0]
  /\ UNCHANGED <<callbackVars, located, pathHeap, motionPlatform, pendingTrips,
                 remoteTrips, endTrips, endResumes, syncs, delivered, recorded,
                 discarded, lastBranch, lastStart, classified, trail>>

\* Variant of the registration methods that keeps a callback already set.
SetCallback_KeepsFirst(slot, callback) == IF slot = 0 THEN callback ELSE slot

\* `this.callbacks.onTripDetected = callback` (line 481) and
\* `this.callbacks.onLocationUpdate = callback` (line 485): the slot's new
\* value.
SetCallback(slot, callback) == callback

OnTripDetected(callback) ==
  /\ onTripDetectedCb' = SetCallback(onTripDetectedCb, callback)
  /\ registered' = [registered EXCEPT !.trip = callback]
  /\ UNCHANGED <<engineVars, onLocationUpdateCb, storeVars, endTrips,
                 endResumes, syncs, delivered, located, recorded, counts>>

OnLocationUpdate(callback) ==
  /\ onLocationUpdateCb' = SetCallback(onLocationUpdateCb, callback)
  /\ registered' = [registered EXCEPT !.location = callback]
  /\ UNCHANGED <<engineVars, onTripDetectedCb, storeVars, endTrips, endResumes,
                 syncs, delivered, located, recorded, counts>>

\* ------------------------------------------- endTrip's persistence call
RemoveAt(s, i) == [j \in 1..(Len(s) - 1) |-> IF j < i THEN s[j] ELSE s[j + 1]]

\* The endTrip calls whose `await this.saveTripToDatabase(completedTrip)`
\* (line 222) has yet to resume, after the save of `trip` is over: the
\* await is in no try, so a rejected save makes endTrip reject there and
\* line 225 is not reached.
EndTripAwaits(trip, rejected) ==
  IF rejected THEN endResumes ELSE Append(endResumes, trip)

\* getUser() settles for the saveTripToDatabase call of endTrips[i].  When
\* the call returns, endTrip's `await` of it has yet to resume.
EndTripGetUser(i, auth, lsOk) ==
  /\ i \in 1..Len(endTrips)
  /\ endTrips[i].pc = "getUser"
  /\ LET r == SaveAfterGetUser(pendingTrips, pathHeap, endTrips[i].trip, auth, lsOk) IN
       /\ pendingTrips' = r.stored
       /\ counts' = NoteRejected(NoteStorage(r.threw), r.rejected)
       /\ IF r.done
          THEN /\ endTrips' = RemoveAt(endTrips, i)
               /\ endResumes' = EndTripAwaits(endTrips[i].trip, r.rejected)
          ELSE /\ endTrips' = [endTrips EXCEPT ![i].pc = "insert"]
               /\ UNCHANGED endResumes
  /\ UNCHANGED <<currentTrip, isTracking, lastPosition, watchId, motionData,
                 isMotionPermissionGranted, callbackVars, located, pathHeap,
                 motionPlatform, watches, motionListeners, startCalls,
                 remoteTrips, syncs, delivered, recorded, discarded,
                 lastBranch, lastStart, classified, trail>>

\* insert() settles for endTrips[i]; saveTripToDatabase returns, and
\* endTrip's `await` of it has yet to resume.
EndTripInsert(i, ins, lsOk) ==
  /\ i \in 1..Len(endTrips)
  /\ endTrips[i].pc = "insert"
  /\ LET r == SaveAfterInsert(pendingTrips, remoteTrips, pathHeap,
                              endTrips[i].trip, ins, lsOk) IN
       /\ pendingTrips' = r.stored
       /\ remoteTrips' = r.remote
       /\ counts' = NoteRejected(NoteStorage(r.threw), r.rejected)
       /\ endResumes' = EndTripAwaits(endTrips[i].trip, r.rejected)
  /\ endTrips' = RemoveAt(endTrips, i)
  /\ UNCHANGED <<currentTrip, isTracking, lastPosition, watchId, motionData,
                 isMotionPermissionGranted, callbackVars, located, pathHeap,
                 motionPlatform, watches, motionListeners, startCalls, syncs,
                 delivered, recorded, discarded, lastBranch, lastStart,
                 classified, trail>>

\* The endTrip call whose save returned first resumes after
\* `await this.saveTripToDatabase(completedTrip)` and resets
\* state.currentTrip, whatever draft is in place by now.
EndTripResume ==
  /\ endResumes # <<>>
  /\ endResumes' = Tail(endResumes)
  /\ currentTrip' = Null
  /\ UNCHANGED <<isTracking, lastPosition, watchId, motionData,
                 isMotionPermissionGranted, callbackVars, located, pathHeap,
                 motionPlatform, watches, motionListeners, startCalls,
                 storeVars, endTrips, syncs, delivered, recorded, discarded,
                 lastBranch, lastStart, classified, trail, counts>>

\* ------------------------------------------------- syncPendingTrips
\* A call is [pc, trips, i, envOk, auth, wrote, saveRejected, rejected]:
\* the parsed queue, the index of the entry being saved, and (history)
\* whether every getUser() and insert() of the call has succeeded so far
\* and how the call's own getUser() settled.  With pc = "saved" the save
\* of entry i is over and the loop, suspended at
\* `await this.saveTripToDatabase(trip)` (line 401), has not resumed yet;
\* wrote (history) tells whether that save wrote the trip to the remote
\* store, saveRejected whether it rejected.  A call that is over stays in
\* `syncs` with pc = "done", and rejected tells whether it rejected to its
\* caller.
\* syncPendingTrips up to `await supabase.auth.getUser()`.
SyncPendingTrips ==
  /\ counts.syncs < MaxSyncCalls
  /\ counts' = Bump("syncs")
  /\ syncs' = Append(syncs, [pc |-> "getUser", trips |-> <<>>, i |-> 0,
                             envOk |-> TRUE, auth |-> "pending",
                             wrote |-> FALSE, saveRejected |-> FALSE,
                             rejected |-> FALSE])
  /\ UNCHANGED <<engineVars, callbackVars, located, storeVars, endTrips,
                 endResumes, delivered, recorded>>

\* The save of entry i is over, leaving `stored` in local storage; the
\* loop's await has yet to resume.
SyncSaveReturns(k, stored, envOk, wrote, rejected) ==
  /\ syncs' = [syncs EXCEPT ![k].pc = "saved", ![k].envOk = envOk,
                            ![k].wrote = wrote,
                            ![k].saveRejected = rejected]
  /\ pendingTrips' = stored

\* The for-loop resumes after the save of entry i is over.  A rejected
\* save throws at the await (line 401), inside the try: the catch logs and
\* the call returns.  Otherwise the save of entry i + 1 is entered and
\* suspends in getUser(), or the loop is over and removeItem() runs (line
\* 403); when it throws (removeOk = FALSE) the catch logs and the stored
\* queue stays.
SyncAdvance(k, removeOk) ==
  /\ k \in 1..Len(syncs)
  /\ syncs[k].pc = "saved"
  /\ LET thrownAt ==
           IF syncs[k].saveRejected THEN {401}
           ELSE IF syncs[k].i = Len(syncs[k].trips) /\ ~removeOk THEN {403}
           ELSE {}
     IN IF thrownAt # {}
        THEN /\ syncs' = [syncs EXCEPT
                            ![k].pc = "done",
                            ![k].rejected = Escapes(SyncPendingTripsTry,
                                                    thrownAt)]
             /\ UNCHANGED pendingTrips
        ELSE IF syncs[k].i < Len(syncs[k].trips)
        THEN /\ syncs' = [syncs EXCEPT ![k].i = @ + 1,
                                       ![k].pc = "saveGetUser"]
             /\ UNCHANGED pendingTrips
        ELSE /\ syncs' = [syncs EXCEPT ![k].pc = "done"]
             /\ pendingTrips' = AbsentQueue
  /\ UNCHANGED <<engineVars, callbackVars, located, remoteTrips, endTrips,
                 endResumes, delivered, recorded, counts>>

\* Variant of syncPendingTrips without the test of the user.
SyncHasUser_NoTest(auth) == TRUE

\* `if (!user) return;` (line 393): syncPendingTrips goes on to read local
\* storage when getUser() resolved with a user.
SyncHasUser(auth) == auth = "user"

\* The lines of syncPendingTrips, up to its loop, at which an exception
\* arises: getUser() rejects (line 392); getItem throws (line 395,
\* getOk = FALSE); JSON.parse throws on a malformed value (line 399);
\* removeItem throws after a loop over no entry (line 403, removeOk =
\* FALSE).
SyncThrownAt(auth, stored, getOk, removeOk) ==
  IF auth = "throws" THEN {392}
  ELSE IF ~SyncHasUser(auth) THEN {}
  ELSE IF ~getOk THEN {395}
  ELSE IF stored.kind = "malformed" THEN {399}
  ELSE IF stored.kind = "json" /\ stored.trips = <<>> /\ ~removeOk THEN {403}
  ELSE {}

\* getUser() of syncPendingTrips settles.  An exception at line 392 or 395
\* is in no try and the call rejects; one at line 399 or 403 is caught and
\* logged, and the call returns.  Without a user, or with nothing stored,
\* the call returns (lines 393, 396).  Otherwise the loop is entered; over
\* no entry it is left at once and removeItem() runs.
SyncGetUser(k, auth, getOk, removeOk) ==
  /\ k \in 1..Len(syncs)
  /\ syncs[k].pc = "getUser"
  /\ LET thrownAt == SyncThrownAt(auth, pendingTrips, getOk, removeOk) IN
     IF thrownAt # {} \/ ~SyncHasUser(auth) \/ pendingTrips.kind = "absent"
     THEN /\ syncs' = [syncs EXCEPT
                         ![k].pc = "done",
                         ![k].envOk = (auth = "user"),
                         ![k].auth = auth,
                         ![k].rejected = Escapes(SyncPendingTripsTry,
                                                 thrownAt)]
          /\ UNCHANGED pendingTrips
     ELSE IF pendingTrips.trips = <<>>
     THEN /\ syncs' = [syncs EXCEPT ![k].pc = "done", ![k].auth = auth]
          /\ pendingTrips' = AbsentQueue
     ELSE /\ syncs' = [syncs EXCEPT ![k].trips = pendingTrips.trips,
                                    ![k].i = 1, ![k].pc = "saveGetUser",
                                    ![k].auth = auth]
          /\ UNCHANGED pendingTrips
  /\ UNCHANGED <<engineVars, callbackVars, located, remoteTrips, endTrips,
                 endResumes, delivered, recorded, counts>>

\* An await of the saveTripToDatabase call of the loop settles: getUser()
\* with `auth`, or insert() with `ins`.  The call goes on to its next
\* await or is over.
SyncSaveSettled(k, auth, ins, lsOk) ==
  /\ k \in 1..Len(syncs)
  /\ syncs[k].pc \in {"saveGetUser", "saveInsert"}
  /\ LET trip == syncs[k].trips[syncs[k].i] IN
     IF syncs[k].pc = "saveGetUser"
     THEN LET r == SaveAfterGetUser(pendingTrips, pathHeap, trip, auth, lsOk)
              envOk == syncs[k].envOk /\ auth = "user"
          IN /\ counts' = NoteRejected(NoteStorage(r.threw), r.rejected)
             /\ UNCHANGED remoteTrips
             /\ IF r.done
                THEN SyncSaveReturns(k, r.stored, envOk, FALSE, r.rejected)
                ELSE /\ syncs' = [syncs EXCEPT ![k].pc = "saveInsert",
                                               ![k].envOk = envOk]
                     /\ UNCHANGED pendingTrips
     ELSE LET r == SaveAfterInsert(pendingTrips, remoteTrips, pathHeap,
                                   trip, ins, lsOk)
          IN /\ counts' = NoteRejected(NoteStorage(r.threw), r.rejected)
             /\ remoteTrips' = r.remote
             /\ SyncSaveReturns(k, r.stored, syncs[k].envOk /\ ins = "ok",
                                ins = "ok", r.rejected)
  /\ UNCHANGED <<engineVars, callbackVars, located, endTrips, endResumes,
                 delivered, recorded>>

\* ------------------------------------------------------------- record
\* The k-th trip handed to record(): what endTrip builds from a draft
\* opened by two samples 222 m apart and closed 6 minutes later.
PoolTrip(k) ==
  LET base == k * 1000000
      s0 == [lat |-> 0, lng |-> 0, timestamp |-> base]
      s1 == [lat |-> 0, lng |-> 200, timestamp |-> base + 60000]
      s2 == [lat |-> 0, lng |-> 200, timestamp |-> base + 420000]
      draft == [StartTripDraft(s0, s1, 0) EXCEPT
                  !.path = [ref |-> 0, val |-> StartTripPath(s0, s1)]]
  IN EndTripRecord(draft, <<>>, <<>>, s2)

\* endTrip hands a finished trip to saveTripToDatabase, which suspends in
\* getUser().
RecordTrip ==
  /\ counts.records < MaxRecords
  /\ counts' = Bump("records")
  /\ LET trip == PoolTrip(counts.records + 1) IN
       /\ endTrips' = Append(endTrips, [trip |-> trip, pc |-> "getUser"])
       /\ recorded' = Append(recorded, [trip |-> trip,
                                        seen |-> Deref(pathHeap, trip.path),
                                        emitted |-> Len(delivered)])
  /\ UNCHANGED <<engineVars, callbackVars, located, storeVars, endResumes,
                 syncs, delivered>>

\* The value stored under 'pendingTrips' is replaced by one JSON.parse
\* rejects (local storage is shared by every script of the origin).
CorruptQueue ==
  /\ pendingTrips.kind # "malformed"
  /\ pendingTrips' = [kind |-> "malformed", trips |-> <<>>]
  /\ UNCHANGED <<engineVars, callbackVars, located, remoteTrips, endTrips,
                 endResumes, syncs, delivered, recorded, counts>>

\* ------------------------------------------------------ specifications
NoStart == [denied |-> FALSE, error |-> FALSE, motion |-> "none"]

NoCalls == [query |-> 0, motion |-> 0, ready |-> <<>>]

NoTrail == [sample |-> Null, first |-> Null, far |-> FALSE, stopped |-> FALSE,
            resumed |-> FALSE]

NoCounts == [samples |-> 0, watches |-> 0, syncs |-> 0, records |-> 0,
             storageThrew |-> 0, motion |-> 0, errors |-> 0,
             rejected |-> 0, permissionDenied |-> 0]

\* The state after construction, in a browser of the given motion platform.
InitEngine(platform) ==
  /\ isTracking = FALSE
  /\ currentTrip = Null
  /\ lastPosition = Null
  /\ watchId = 0
  /\ motionData = <<>>
  /\ isMotionPermissionGranted = FALSE
  /\ onTripDetectedCb = 0
  /\ onLocationUpdateCb = 0
  /\ registered = [trip |-> 0, location |-> 0]
  /\ pathHeap = <<>>
  /\ watches = {}
  /\ motionListeners = 0
  /\ motionPlatform = platform
  /\ startCalls = NoCalls
  /\ pendingTrips = AbsentQueue
  /\ remoteTrips = <<>>
  /\ endTrips = <<>>
  /\ endResumes = <<>>
  /\ syncs = <<>>
  /\ delivered = <<>>
  /\ located = Null
  /\ recorded = <<>>
  /\ discarded = {}
  /\ lastBranch = "none"
  /\ lastStart = NoStart
  /\ classified = Null
  /\ trail = NoTrail
  /\ counts = NoCounts

\* A browser without DeviceMotionEvent.
Init == InitEngine("unsupported")

\* A browser of any of the three motion platforms.
InitSession == \E platform \in MotionPlatforms : InitEngine(platform)

\* The engine: tracking sessions, segmentation, and endTrip's persistence
\* with local storage in order (its failures are SpecPersist's matter).
Next ==
  \/ StartTracking
  \/ StartTrackingLocation("granted")
  \/ StartTrackingResume
  \/ StopTracking
  \/ OnTripDetected(1)
  \/ GeoSample(SessionLngs, SessionDts)
  \/ \E i \in 1..Len(endTrips), auth \in {"user", "none"} :
       EndTripGetUser(i, auth, TRUE)
  \/ \E i \in 1..Len(endTrips), ins \in {"ok", "error"} :
       EndTripInsert(i, ins, TRUE)
  \/ EndTripResume

Spec == Init /\ [][Next]_vars

\* One tracking session, started by one startTracking() call:
\* segmentation of every sample sequence, with endTrip's persistence.
NextSegment ==
  \/ (counts.watches + Suspended = 0 /\ StartTracking)
  \/ StartTrackingLocation("granted")
  \/ StartTrackingResume
  \/ GeoSample(Lngs, Dts)
  \/ \E i \in 1..Len(endTrips), auth \in {"user", "none"} :
       EndTripGetUser(i, auth, TRUE)
  \/ \E i \in 1..Len(endTrips), ins \in {"ok", "error"} :
       EndTripInsert(i, ins, TRUE)
  \/ EndTripResume

SpecSegment == Init /\ [][NextSegment]_vars

\* The persistence gateway: record() calls and syncPendingTrips() drains.
NextPersist ==
  \/ RecordTrip
  \/ \E i \in 1..Len(endTrips), auth \in AuthOutcomes, lsOk \in BOOLEAN :
       EndTripGetUser(i, auth, lsOk)
  \/ \E i \in 1..Len(endTrips), ins \in InsertOutcomes, lsOk \in BOOLEAN :
       EndTripInsert(i, ins, lsOk)
  \/ EndTripResume
  \/ SyncPendingTrips
  \/ \E k \in 1..Len(syncs), auth \in AuthOutcomes, getOk \in BOOLEAN,
        removeOk \in BOOLEAN : SyncGetUser(k, auth, getOk, removeOk)
  \/ \E k \in 1..Len(syncs), auth \in AuthOutcomes, ins \in InsertOutcomes,
        lsOk \in BOOLEAN : SyncSaveSettled(k, auth, ins, lsOk)
  \/ \E k \in 1..Len(syncs), removeOk \in BOOLEAN : SyncAdvance(k, removeOk)

SpecPersist == Init /\ [][NextPersist]_vars

\* The persistence gateway over a queue that may be malformed; getItem,
\* setItem and removeItem themselves work.
NextStorage ==
  \/ RecordTrip
  \/ CorruptQueue
  \/ \E i \in 1..Len(endTrips), auth \in AuthOutcomes :
       EndTripGetUser(i, auth, TRUE)
  \/ \E i \in 1..Len(endTrips), ins \in InsertOutcomes :
       EndTripInsert(i, ins, TRUE)
  \/ EndTripResume
  \/ SyncPendingTrips
  \/ \E k \in 1..Len(syncs), auth \in AuthOutcomes :
       SyncGetUser(k, auth, TRUE, TRUE)
  \/ \E k \in 1..Len(syncs), auth \in AuthOutcomes, ins \in InsertOutcomes :
       SyncSaveSettled(k, auth, ins, TRUE)
  \/ \E k \in 1..Len(syncs) : SyncAdvance(k, TRUE)

SpecStorage == Init /\ [][NextStorage]_vars

\* Tracking sessions: startTracking() with every outcome of the two
\* permission requests, stopTracking(), and the samples of both sources.
NextSession ==
  \/ StartTracking
  \/ \E location \in LocationOutcomes : StartTrackingLocation(location)
  \/ \E answer \in MotionAnswers : StartTrackingMotion(answer)
  \/ StartTrackingResume
  \/ StopTracking
  \/ GeoSample(SessionLngs, StopDts)
  \/ MotionSample(SessionEvents)
  \/ \E i \in 1..Len(endTrips) : EndTripGetUser(i, "none", TRUE)
  \/ EndTripResume

SpecSession == InitSession /\ [][NextSession]_vars

\* One tracking session during which the application registers callbacks
\* and registers others over them.
NextCallbacks ==
  \/ StartTracking
  \/ StartTrackingLocation("granted")
  \/ StartTrackingResume
  \/ \E callback \in Callbacks : OnTripDetected(callback)
  \/ \E callback \in Callbacks : OnLocationUpdate(callback)
  \/ GeoSample(SessionLngs, StopDts)
  \/ \E i \in 1..Len(endTrips) : EndTripGetUser(i, "none", TRUE)
  \/ EndTripResume

SpecCallbacks == Init /\ [][NextCallbacks]_vars

\* One tracking session whose location watch reports errors between the
\* samples.
NextErrors ==
  \/ StartTracking
  \/ StartTrackingLocation("granted")
  \/ StartTrackingResume
  \/ GeoSample(SessionLngs, SessionDts)
  \/ \E code \in ErrorCodes : LocationError(code)
  \/ \E i \in 1..Len(endTrips) : EndTripGetUser(i, "none", TRUE)
  \/ EndTripResume

SpecErrors == Init /\ [][NextErrors]_vars

\* The location permission: startTracking() with every outcome of the
\* permission query and of the motion request, stopTracking(), and the
\* errors the location watches report, PERMISSION_DENIED among them (the
\* user's answer when the browser prompts at watchPosition).
NextPermission ==
  \/ StartTracking
  \/ \E location \in LocationOutcomes : StartTrackingLocation(location)
  \/ \E answer \in MotionAnswers : StartTrackingMotion(answer)
  \/ StartTrackingResume
  \/ StopTracking
  \/ \E code \in ErrorCodes : LocationError(code)

SpecPermission == InitSession /\ [][NextPermission]_vars

\* ------------------------------------------------------ CO2 calculator
\* (src/unnamed/part_001)  Emission factors in g/km.
EMISSION_FACTORS ==
  [car |-> 120, bus |-> 80, train |-> 40, bike |-> 0, walk |-> 0, other |-> 90]

\* calculateCO2Emission: `(EMISSION_FACTORS[mode] || 90) * distanceKm`; the
\* || takes 90 when the factor is falsy, which the number 0 is.
CalculateCO2Emission(mode, distanceKm) ==
  (IF EMISSION_FACTORS[mode] = 0 THEN 90 ELSE EMISSION_FACTORS[mode])
    * distanceKm

\* A call of calculateCO2Emission.
EmissionCall(mode, distanceKm) ==
  /\ classified' = [kind |-> "co2", mode |-> mode, distance |-> distanceKm,
                    grams |-> CalculateCO2Emission(mode, distanceKm)]
  /\ UNCHANGED <<isTracking, currentTrip, lastPosition, watchId, motionData,
                 isMotionPermissionGranted, callbackVars, pathHeap,
                 motionPlatform, watches, motionListeners, startCalls,
                 storeVars, endTrips, endResumes, syncs, delivered, located,
                 recorded, discarded, lastBranch, lastStart, trail, counts>>

NextEmission ==
  \E mode \in TransportModes, distanceKm \in EmissionDistances :
    EmissionCall(mode, distanceKm)

SpecEmission == Init /\ [][NextEmission]_vars

\* detectTransportMode's rule table applied to a total distance, an
\* elapsed time and four motion booleans.
ClassifySpeed(totalDistance, totalTime, m) ==
  /\ classified' = [kind |-> "speed", distance |-> totalDistance,
                    time |-> totalTime, motion |-> m,
                    mode |-> SpeedMode(totalDistance, totalTime, m)]
  /\ UNCHANGED <<isTracking, currentTrip, lastPosition, watchId, motionData,
                 isMotionPermissionGranted, callbackVars, pathHeap,
                 motionPlatform, watches, motionListeners, startCalls,
                 storeVars, endTrips, endResumes, syncs, delivered, located,
                 recorded, discarded, lastBranch, lastStart, trail, counts>>

\* detectTransportMode applied to a path, with the Motion Window as it is.
ClassifyPath(path) ==
  /\ classified' = [kind |-> "path", path |-> path, window |-> motionData,
                    mode |-> DetectTransportMode(path, motionData)]
  /\ UNCHANGED <<isTracking, currentTrip, lastPosition, watchId, motionData,
                 isMotionPermissionGranted, callbackVars, pathHeap,
                 motionPlatform, watches, motionListeners, startCalls,
                 storeVars, endTrips, endResumes, syncs, delivered, located,
                 recorded, discarded, lastBranch, lastStart, trail, counts>>

\* The paths classified: the one startTrip builds from two samples 222 m
\* apart, the same with a third point 222 m back, and a single point.
ClassifyPaths ==
  LET s0 == [lat |-> 0, lng |-> 0, timestamp |-> 0]
      s1(dt) == [lat |-> 0, lng |-> 200, timestamp |-> dt]
  IN {StartTripPath(s0, s1(dt)) : dt \in PathDts}
     \cup {UpdateTripPath(StartTripPath(s0, s1(dt)), [s0 EXCEPT !.timestamp = 2 * dt]) :
             dt \in PathDts}
     \cup {<<PathPoint(s0)>>}

\* A tracking session with motion readings in the window.
InitClassify ==
  /\ isTracking = TRUE
  /\ currentTrip = Null
  /\ lastPosition = Null
  /\ watchId = 1
  /\ motionData \in MotionWindows
  /\ isMotionPermissionGranted = TRUE
  /\ onTripDetectedCb = 0
  /\ onLocationUpdateCb = 0
  /\ registered = [trip |-> 0, location |-> 0]
  /\ pathHeap = <<>>
  /\ watches = {1}
  /\ motionListeners = 1
  /\ motionPlatform = "available"
  /\ startCalls = NoCalls
  /\ pendingTrips = AbsentQueue
  /\ remoteTrips = <<>>
  /\ endTrips = <<>>
  /\ endResumes = <<>>
  /\ syncs = <<>>
  /\ delivered = <<>>
  /\ located = Null
  /\ recorded = <<>>
  /\ discarded = {}
  /\ lastBranch = "none"
  /\ lastStart = [denied |-> FALSE, error |-> FALSE, motion |-> "available"]
  /\ classified = Null
  /\ trail = NoTrail
  /\ counts = [NoCounts EXCEPT !.watches = 1]

\* The n-th tracking session of a browser that has DeviceMotionEvent, with
\* the Motion Window full or nearly so: each session so far has called
\* watchPosition and has left its listener, and stopTracking() has
\* cleared the earlier watches.
InitWindowOf(n) ==
  /\ isTracking = TRUE
  /\ currentTrip = Null
  /\ lastPosition = Null
  /\ watchId = n
  /\ motionData \in FullWindows
  /\ isMotionPermissionGranted = TRUE
  /\ onTripDetectedCb = 0
  /\ onLocationUpdateCb = 0
  /\ registered = [trip |-> 0, location |-> 0]
  /\ pathHeap = <<>>
  /\ watches = {n}
  /\ motionListeners = n
  /\ motionPlatform = "available"
  /\ startCalls = NoCalls
  /\ pendingTrips = AbsentQueue
  /\ remoteTrips = <<>>
  /\ endTrips = <<>>
  /\ endResumes = <<>>
  /\ syncs = <<>>
  /\ delivered = <<>>
  /\ located = Null
  /\ recorded = <<>>
  /\ discarded = {}
  /\ lastBranch = "none"
  /\ lastStart = [denied |-> FALSE, error |-> FALSE, motion |-> "available"]
  /\ classified = Null
  /\ trail = NoTrail
  /\ counts = [NoCounts EXCEPT !.watches = n]

InitWindow == \E n \in 1..MaxWatches : InitWindowOf(n)

NextWindow == MotionSample(WindowEvents)

SpecWindow == InitWindow /\ [][NextWindow]_vars

\* The mode classifier on drawn inputs.
NextClassify ==
  \/ \E d \in SpeedDistances, t \in SpeedTimes, m \in AllMotions :
       ClassifySpeed(d, t, m)
  \/ \E path \in ClassifyPaths : ClassifyPath(path)

SpecClassify == InitClassify /\ [][NextClassify]_vars

\* ------------------------------------------------------------- claims
\* A geo sample is handled in this step.
SampleStep == counts'.samples = counts.samples + 1

\* The draft in place has already been closed by an endTrip call.
DraftClosed ==
  /\ currentTrip # Null
  /\ \E r \in 1..Len(recorded) :
       recorded[r].trip.path.ref = currentTrip.path.ref

\* A trip is identified by its start and end instants.
InRemoteOf(remote, trip) ==
  \E i \in 1..Len(remote) :
    /\ remote[i].start_time = trip.startTime.ms
    /\ remote[i].end_time = trip.endTime.ms

InQueueOf(stored, trip) ==
  /\ stored.kind = "json"
  /\ \E i \in 1..Len(stored.trips) :
       /\ stored.trips[i].startTime.ms = trip.startTime.ms
       /\ stored.trips[i].endTime.ms = trip.endTime.ms

\* C1: with no draft in place (state.currentTrip is null) and a previous
\* sample prev, a sample p opens a draft iff distance(prev, p) > 200 m, and
\* the new draft has origin = prev, startTime = prev.timestamp and the
\* path [prev, p].
C1_StartRule ==
  [][(SampleStep /\ currentTrip = Null /\ lastPosition # Null) =>
       LET prev == lastPosition
           p == lastPosition'
           far == Abs(p.lng - prev.lng) * MM_PER_UNIT > 200 * 1000 * 1000
       IN /\ (currentTrip' # Null) <=> far
          /\ currentTrip' # Null =>
               /\ currentTrip'.origin.coordinates =
                    [lat |-> prev.lat, lng |-> prev.lng]
               /\ currentTrip'.startTime = DateOf(prev.timestamp)
               /\ Deref(pathHeap', currentTrip'.path) =
                    <<PathPoint(prev), PathPoint(p)>>]_vars

\* C1 witness: a sample more than 200 m from its predecessor has just opened
\* a draft.
C1_Witness ==
  /\ lastBranch = "start"
  /\ currentTrip # Null
  /\ Len(Deref(pathHeap, currentTrip.path)) = 2
  /\ Deref(pathHeap, currentTrip.path)[2] = PathPoint(lastPosition)

\* C2: a sample p less than 10 m and more than 5 minutes after prev closes
\* the open draft (a DetectedTrip with destination = p and
\* endTime = p.timestamp is handed to persistence), and the machine is Idle
\* before the next sample is evaluated: no sample is evaluated against a
\* draft that has been closed.
C2_CloseThenIdle ==
  [][SampleStep =>
       /\ ~DraftClosed
       /\ (/\ currentTrip # Null
           /\ CalculateDistance(lastPosition.lat, lastPosition.lng,
                                lastPosition'.lat, lastPosition'.lng) < 10000
           /\ lastPosition'.timestamp - lastPosition.timestamp > 300000)
          => /\ Len(recorded') = Len(recorded) + 1
             /\ LET t == recorded'[Len(recorded')].trip IN
                  /\ t.destination.coordinates =
                       [lat |-> lastPosition'.lat, lng |-> lastPosition'.lng]
                  /\ t.endTime = DateOf(lastPosition'.timestamp)
                  /\ \E i \in 1..Len(endTrips') : endTrips'[i].trip = t]_vars

\* C3: when a record() call returns, the trip is in the remote store or in
\* the pending queue, whatever getUser(), insert() and local storage did.
C3_NeverDropped ==
  [][\A i \in 1..Len(endTrips) :
       (\A j \in 1..Len(endTrips') : endTrips'[j].trip # endTrips[i].trip)
         => \/ InRemoteOf(remoteTrips', endTrips[i].trip)
            \/ InQueueOf(pendingTrips', endTrips[i].trip)]_vars

\* No record() call and no drain is in progress.
Quiescent ==
  /\ endTrips = <<>>
  /\ \A k \in 1..Len(syncs) : syncs[k].pc = "done"

\* C4: after any interleaving of record() calls and drains, every recorded
\* trip is in the remote store or in the queue (stated for the runs in
\* which local storage never threw).
C4_NoLossUnderInterleaving ==
  (Quiescent /\ counts.storageThrew = 0) =>
    \A r \in 1..Len(recorded) :
      \/ InRemoteOf(remoteTrips, recorded[r].trip)
      \/ InQueueOf(pendingTrips, recorded[r].trip)

\* C5: when the save of queue entry i fails in a drain that runs alone, the
\* drain stops there and the queue is the entries from i on, in order.
C5_StopAtFirstFailure ==
  [][\A k \in 1..Len(syncs) :
       (/\ syncs[k].pc = "saved"
        /\ ~syncs[k].wrote
        /\ endTrips = <<>>
        /\ \A o \in 1..Len(syncs) : o # k => syncs[o].pc = "done"
        /\ syncs'[k] # syncs[k])
       => /\ syncs'[k].pc = "done"
          /\ pendingTrips' =
               [kind |-> "json",
                trips |-> SubSeq(syncs[k].trips, syncs[k].i,
                                 Len(syncs[k].trips))]]_vars

\* C6: an entry leaves the queue only when its trip is in the remote store.
C6_RemovedOnlyWhenWritten ==
  [][\A i \in 1..Len(pendingTrips.trips) :
       ~InQueueOf(pendingTrips', pendingTrips.trips[i])
         => InRemoteOf(remoteTrips', pendingTrips.trips[i])]_vars

\* C7: a trip recorded without a principal is queued and not written; once
\* a drain has run with a principal, and every getUser() and insert() of it
\* succeeded, the remote store contains the trips it found queued.
C7_QueuedThenSynced ==
  \A k \in 1..Len(syncs) :
    (syncs[k].pc = "done" /\ syncs[k].envOk) =>
      \A i \in 1..Len(syncs[k].trips) :
        InRemoteOf(remoteTrips, syncs[k].trips[i])

\* C8: the path of a DetectedTrip, as the callback and persistence received
\* it, never changes afterwards.
C8_TripImmutable ==
  /\ \A r \in 1..Len(recorded) :
       Deref(pathHeap, recorded[r].trip.path) = recorded[r].seen
  /\ \A d \in 1..Len(delivered) :
       Deref(pathHeap, delivered[d].trip.path) = delivered[d].seen

\* C9: a draft yields at most one DetectedTrip: no two callback calls and
\* no two record() calls are for the same draft.
C9_OneTripPerDraft ==
  /\ \A a, b \in 1..Len(recorded) :
       a # b => recorded[a].trip.path.ref # recorded[b].trip.path.ref
  /\ \A a, b \in 1..Len(delivered) :
       a # b => delivered[a].trip.path.ref # delivered[b].trip.path.ref

\* C10: a draft that is open (not yet closed by endTrip) when stopTracking()
\* is called never yields a trip: none is delivered to the callback or
\* handed to record(), none is in the remote store or the queue.
C10_StoppedDraftDiscarded ==
  \A d \in discarded :
    /\ \A r \in 1..Len(recorded) : recorded[r].trip.path.ref # d.path.ref
    /\ \A c \in 1..Len(delivered) : delivered[c].trip.path.ref # d.path.ref
    /\ \A e \in 1..Len(endTrips) : endTrips[e].trip.path.ref # d.path.ref
    /\ \A i \in 1..Len(remoteTrips) :
         remoteTrips[i].start_time # d.startTime.ms
    /\ \A i \in 1..Len(pendingTrips.trips) :
         pendingTrips.trips[i].startTime.ms # d.startTime.ms

\* C10 witness: a draft was discarded by stopTracking(), tracking was
\* started again, and a later draft has been closed and delivered.
C10_Witness ==
  /\ discarded # {}
  /\ isTracking
  /\ delivered # <<>>
  /\ remoteTrips # <<>>

\* A 'devicemotion' event is dispatched in this step.
MotionStep == counts'.motion = counts.motion + 1

\* The location permission query of a startTracking() call settles.
LocationStep == startCalls'.query = startCalls.query - 1

\* A startTracking() call resumes after its permission requests.
ResumeStep == Len(startCalls'.ready) = Len(startCalls.ready) - 1

\* stopTracking() has returned and no startTracking() call has been made
\* since: the engine has tracked, is not tracking, and no call is suspended.
Stopped == ~isTracking /\ startCalls = NoCalls /\ counts.watches > 0

\* C11: after stopTracking() has returned and until the next
\* startTracking(), no geo sample and no motion sample is handled:
\* lastPosition, the draft and the Motion Window are not changed by a
\* sample of either source.
C11_StopHaltsSamples ==
  [][(Stopped /\ (SampleStep \/ MotionStep)) =>
       /\ lastPosition' = lastPosition
       /\ currentTrip' = currentTrip
       /\ motionData' = motionData]_vars

\* The location permission is denied in this step: the permission query
\* of a startTracking() call settles 'denied', or a location watch reports
\* PERMISSION_DENIED (the user's answer to the browser's prompt, when the
\* query had said 'prompt' or had thrown).
DeniedStep ==
  \/ (LocationStep /\ lastStart'.denied)
  \/ (counts'.errors = counts.errors + 1 /\ counts'.permissionDenied = 1)

\* C12: when the location permission is denied, startTracking() has
\* failed with an error and the engine is not tracking: isTracking is
\* false, there is no location watch, and no motion listener is created.
C12_DeniedStartFails ==
  [][DeniedStep =>
       /\ lastStart'.error
       /\ ~isTracking'
       /\ watches' = {}
       /\ motionListeners' = motionListeners]_vars

\* C13: startTracking() called while the engine is tracking returns the
\* engine state it found: no permission request is pending for it, and
\* draft, lastPosition, Motion Window, watch handle, watches and motion
\* listeners are the same.
C13_StartWhileTrackingNoOp ==
  isTracking => StartTrackingEnter(EngineState) = EngineState

\* C13 witness: the engine is tracking with an open draft and a non-empty
\* Motion Window, and startTracking() can be called.
C13_Witness ==
  /\ isTracking
  /\ currentTrip # Null
  /\ motionData # <<>>
  /\ counts.watches + Suspended < MaxWatches

\* C14: stopTracking() is idempotent.  Two calls in a row give the state
\* one call gives (not tracking, no watch handle, no draft, empty Motion
\* Window), and a call made when the engine is not tracking changes
\* nothing.
C14_StopIdempotent ==
  LET once == StopTrackingState(EngineState) IN
  /\ StopTrackingState(once) = once
  /\ ~once.isTracking /\ once.watchId = 0
  /\ once.currentTrip = Null /\ once.motionData = <<>>
  /\ ~isTracking => once = EngineState

\* The tracking session in progress, the only one with a location watch,
\* was started by a call whose motion permission request was refused,
\* found motion events unsupported, or threw.
MotionFailed ==
  /\ isTracking
  /\ watches = {watchId}
  /\ ~lastStart.error
  /\ lastStart.motion \in {"denied", "unsupported", "throws"}

\* C15: when the motion permission request fails, startTracking() still
\* succeeds (tracking, with an active location watch), and in that session
\* no motion sample is collected, so that the classifier sees all four
\* motion booleans false.
C15_MotionFailureDegrades ==
  [][/\ (ResumeStep /\ ~lastStart'.denied
         /\ lastStart'.motion \in {"denied", "unsupported", "throws"})
        => /\ ~lastStart'.error
           /\ isTracking'
           /\ watchId' \in watches'
     /\ (MotionFailed /\ MotionStep) => motionData' = motionData
     /\ MotionFailed' => AnalyzeMotionPattern(motionData') = NeutralMotion]_vars

\* C16: the classifier follows the rule table, first match wins, for every
\* average speed (distance d over time t > 0, speed < k km/h iff
\* 36 d < 10 k t) and every combination of the motion booleans; a speed of
\* exactly 5, 15, 40 or 80 km/h is in the upper band.
C16_RuleTable ==
  (classified # Null /\ classified.kind = "speed" /\ classified.time > 0) =>
    LET d == classified.distance
        t == classified.time
        m == classified.motion
        mode == classified.mode
    IN /\ 36 * d < 50 * t =>
            mode = IF m.isWalking THEN "walk" ELSE "other"
       /\ (36 * d >= 50 * t /\ 36 * d < 150 * t) =>
            mode = IF m.isCycling THEN "bike" ELSE "walk"
       /\ (36 * d >= 150 * t /\ 36 * d < 400 * t) =>
            mode = IF m.isVehicleWithStops THEN "bus" ELSE "car"
       /\ (36 * d >= 400 * t /\ 36 * d < 800 * t) =>
            mode = IF m.isSmoothVehicle THEN "train" ELSE "car"
       /\ 36 * d >= 800 * t => mode = "train"

\* C16 witness: a speed of exactly 15 km/h with isVehicleWithStops was
\* classified as bus.
C16_Witness ==
  /\ classified # Null
  /\ classified.kind = "speed"
  /\ classified.time > 0
  /\ 36 * classified.distance = 150 * classified.time
  /\ classified.motion.isVehicleWithStops
  /\ classified.mode = "bus"

\* Sum of the squared deviations of the n magnitudes from their mean,
\* times n^2: the population variance is this over 100 n^3 (magnitudes in
\* tenths).
RECURSIVE SquaredDeviations(_, _, _)
SquaredDeviations(w, S, i) ==
  IF i > Len(w) THEN 0
  ELSE (Len(w) * Magnitude(w[i]) - S) * (Len(w) * Magnitude(w[i]) - S)
       + SquaredDeviations(w, S, i + 1)

RECURSIVE SumMagnitudes(_, _)
SumMagnitudes(w, i) ==
  IF i > Len(w) THEN 0 ELSE Magnitude(w[i]) + SumMagnitudes(w, i + 1)

\* C17: with fewer than 10 readings in the Motion Window all four motion
\* booleans are false and the mode is other / walk / car / car / train by
\* speed band; with 10 or more they are isWalking = 1 < avg < 3 and
\* var > 0.5, isCycling = 0.5 < avg < 2 and var < 0.3, isVehicleWithStops =
\* var > 1 and avg > 0.8, isSmoothVehicle = var < 0.2 and avg < 1, for the
\* mean avg and the population variance var of the magnitudes.
C17_MotionFeatures ==
  (classified # Null /\ classified.kind = "path") =>
    LET w == classified.window
        n == Len(w)
        S == SumMagnitudes(w, 1)
        D == SquaredDeviations(w, S, 1)
        path == classified.path
        d == CalculateTotalDistance(path)
        t == path[Len(path)].timestamp - path[1].timestamp
    IN /\ (n < 10) =>
            /\ AnalyzeMotionPattern(w) = NeutralMotion
            /\ (Len(path) >= 2 /\ t > 0) =>
                 classified.mode =
                   IF 36 * d < 50 * t THEN "other"
                   ELSE IF 36 * d < 150 * t THEN "walk"
                   ELSE IF 36 * d < 800 * t THEN "car"
                   ELSE "train"
       /\ (n >= 10) =>
            AnalyzeMotionPattern(w) =
              [isWalking |-> S > 10 * n /\ S < 30 * n
                             /\ 10 * D > 500 * n * n * n,
               isCycling |-> 10 * S > 50 * n /\ S < 20 * n
                             /\ 10 * D < 300 * n * n * n,
               isVehicleWithStops |-> D > 100 * n * n * n /\ 10 * S > 80 * n,
               isSmoothVehicle |-> 10 * D < 200 * n * n * n /\ S < 10 * n]

\* C17 witness: a path slower than 5 km/h was classified as walk with 10 or
\* more readings in the window (isWalking holds), and so was a window of
\* 9 readings as other.
C17_Witness ==
  /\ classified # Null
  /\ classified.kind = "path"
  /\ Len(classified.window) >= 10
  /\ AnalyzeMotionPattern(classified.window).isWalking
  /\ classified.mode = "walk"

\* The path of an emitted trip has 2 points or more and begins at the
\* trip's origin, at startTime.
PathFromOrigin(trip) ==
  LET path == Deref(pathHeap, trip.path) IN
  /\ Len(path) >= 2
  /\ path[1].lat = trip.origin.coordinates.lat
  /\ path[1].lng = trip.origin.coordinates.lng
  /\ path[1].timestamp = trip.startTime.ms

\* C18: every DetectedTrip handed to the callback or to record() has a
\* path of at least 2 points whose first point has the coordinates of the
\* origin and the timestamp startTime.
C18_PathStartsAtOrigin ==
  /\ \A r \in 1..Len(recorded) : PathFromOrigin(recorded[r].trip)
  /\ \A d \in 1..Len(delivered) : PathFromOrigin(delivered[d].trip)

\* C18 witness: a trip whose path has grown beyond the two points of
\* startTrip has been delivered to the callback.
C18_Witness ==
  /\ delivered # <<>>
  /\ Len(Deref(pathHeap, delivered[1].trip.path)) >= 3
  /\ PathFromOrigin(delivered[1].trip)

\* C19: the distance of every DetectedTrip is the sum of the lengths of the
\* consecutive segments of its path, and the cumulative distance along a
\* path never decreases from one point to the next.
C19_DistanceIsPathLength ==
  \A r \in 1..Len(recorded) :
    LET trip == recorded[r].trip
        path == Deref(pathHeap, trip.path)
    IN /\ trip.distance = SumSegments(path, 2)
       /\ \A i \in 1..(Len(path) - 1) :
            CalculateTotalDistance(SubSeq(path, 1, i))
              <= CalculateTotalDistance(SubSeq(path, 1, i + 1))

\* C20: with a draft in place and a sample p that does not meet the close
\* rule (less than 10 m from prev and more than 5 minutes after it), p is
\* appended at the end of the draft's path and the draft's origin,
\* startTime and earlier points stay; with no draft and p at most 200 m
\* from prev, no draft is created.  (Distances in micrometres.)
C20_ContinueAppends ==
  [][(SampleStep /\ lastPosition # Null) =>
       LET prev == lastPosition
           p == lastPosition'
           dist == Abs(p.lng - prev.lng) * MM_PER_UNIT
           close == /\ dist < 10 * 1000 * 1000
                    /\ p.timestamp - prev.timestamp > 5 * 60 * 1000
       IN /\ (currentTrip # Null /\ ~close) =>
               /\ currentTrip' = currentTrip
               /\ Deref(pathHeap', currentTrip.path) =
                    Append(Deref(pathHeap, currentTrip.path), PathPoint(p))
          /\ (currentTrip = Null /\ dist <= 200 * 1000 * 1000) =>
               /\ currentTrip' = Null
               /\ pathHeap' = pathHeap]_vars

\* C20 witness: a sample has just been appended to a draft that had two
\* points or more.
C20_Witness ==
  /\ lastBranch = "update"
  /\ currentTrip # Null
  /\ LET path == Deref(pathHeap, currentTrip.path) IN
       /\ Len(path) >= 3
       /\ path[Len(path)] = PathPoint(lastPosition)

\* C21: after a geo sample p has been evaluated with an existing prev,
\* lastPosition is p, whichever branch was taken (start, close, continue
\* or no transition).
C21_SampleBecomesPrev ==
  [][(SampleStep /\ lastPosition # Null) =>
       /\ lastBranch' \in {"start", "end", "update", "none"}
       /\ lastPosition' = trail'.sample]_vars

\* C21 witness: a sample has just closed a draft and is the new prev.
C21_Witness ==
  /\ lastBranch = "end"
  /\ counts.samples >= 3
  /\ recorded # <<>>
  /\ lastPosition = trail.sample

\* C22: a geo sample handled when no previous sample exists is stored as
\* prev and nothing else: no draft is opened or closed, no path changes
\* and no trip is emitted or handed to persistence.
C22_FirstSampleOnlyStored ==
  [][(SampleStep /\ lastPosition = Null) =>
       /\ lastPosition' = trail'.sample
       /\ currentTrip' = currentTrip
       /\ pathHeap' = pathHeap
       /\ delivered' = delivered
       /\ recorded' = recorded
       /\ endTrips' = endTrips]_vars

\* C22 witness: the first sample of a session has been handled.
C22_Witness ==
  /\ counts.samples = 1
  /\ lastBranch = "first"
  /\ lastPosition = trail.sample
  /\ currentTrip = Null

\* C23: as long as every consecutive pair of samples is at most 200 m
\* apart, no draft is opened (and so no trip is closed), however far the
\* samples have moved from the first one.
C23_SmallMovesNeverStart ==
  ~trail.far =>
    /\ currentTrip = Null
    /\ pathHeap = <<>>
    /\ recorded = <<>>
    /\ delivered = <<>>

\* C23 witness: three samples or more, each at most 200 m from the one
\* before, the last more than 200 m from the first, and no draft.
C23_Witness ==
  /\ ~trail.far
  /\ counts.samples >= 3
  /\ Abs(lastPosition.lng - trail.first.lng) * MM_PER_UNIT > 200 * 1000 * 1000
  /\ currentTrip = Null

\* The error callback of a location watch has been called.
ErrorStep == counts'.errors = counts.errors + 1

\* C24: a location-source error leaves the engine state unchanged (the
\* draft and its path, lastPosition, the tracking flag, the location
\* watch) and emits or persists no trip; a draft is closed only by a
\* sample less than 10 m from prev and more than 5 minutes after it.
\* (Distances in micrometres.)
C24_LocationErrorKeepsState ==
  [][/\ ErrorStep =>
          /\ UNCHANGED <<isTracking, currentTrip, lastPosition, watchId,
                         watches, pathHeap, motionData>>
          /\ UNCHANGED <<delivered, recorded, endTrips, endResumes,
                         pendingTrips, remoteTrips>>
     /\ Len(recorded') > Len(recorded) =>
          /\ SampleStep
          /\ currentTrip # Null
          /\ Abs(lastPosition'.lng - lastPosition.lng) * MM_PER_UNIT
               < 10 * 1000 * 1000
          /\ lastPosition'.timestamp - lastPosition.timestamp
               > 5 * 60 * 1000]_vars

\* C24 witness: a location error has been reported while a draft was open
\* and the engine is still tracking with the draft in place.
C24_Witness ==
  /\ counts.errors > 0
  /\ counts.samples = 2
  /\ isTracking
  /\ watches = {watchId}
  /\ currentTrip # Null
  /\ recorded = <<>>

\* C25 as stated: when the trip-detected event of a trip is emitted, the
\* trip has already been handed to the persistence gateway.
C25_PersistBeforeEmit ==
  \A d \in 1..Len(delivered) :
    \E r \in 1..Len(recorded) :
      /\ recorded[r].trip = delivered[d].trip
      /\ r <= delivered[d].handed

\* C25, amended: the trip-detected event of a trip is emitted before the
\* trip is handed to the persistence gateway, both while the closing
\* sample is handled.
C25_EmitBeforePersist ==
  \A d \in 1..Len(delivered) :
    \E r \in 1..Len(recorded) :
      /\ recorded[r].trip = delivered[d].trip
      /\ r = delivered[d].handed + 1
      /\ d = recorded[r].emitted

\* C25 witness: two trips have been closed, the second with a subscriber.
C25_Witness ==
  /\ Len(recorded) = 2
  /\ delivered # <<>>
  /\ delivered[Len(delivered)].trip = recorded[2].trip
  /\ delivered[Len(delivered)].handed = 1

\* C26: no saveTripToDatabase call throws or rejects to its caller,
\* whether getUser() or insert() fails, the remote record cannot be built
\* or local storage throws.
C26_RecordNeverRejects == counts.rejected = 0

\* C26 witness: a trip was handed to record(), local storage threw while
\* it was being queued, and the call has returned.
C26_Witness ==
  /\ counts.storageThrew = 1
  /\ counts.records = 1
  /\ endTrips = <<>>
  /\ syncs = <<>>
  /\ pendingTrips = AbsentQueue
  /\ remoteTrips = <<>>

\* A trip reloaded from the queue equals the trip `original` field for
\* field, the path by content.
SameTrip(reloaded, original, heap) ==
  /\ reloaded.origin = original.origin
  /\ reloaded.destination = original.destination
  /\ reloaded.startTime = original.startTime
  /\ reloaded.endTime = original.endTime
  /\ reloaded.distance = original.distance
  /\ reloaded.mode = original.mode
  /\ Deref(heap, reloaded.path) = Deref(heap, original.path)

\* C27: every trip a drain has reloaded from the pending queue equals,
\* field for field, a trip that was handed to record(), and its startTime
\* and endTime are dates, from which the remote record can be built.
C27_QueueRoundTrip ==
  \A k \in 1..Len(syncs) :
    \A i \in 1..Len(syncs[k].trips) :
      /\ CanBuildRecord(syncs[k].trips[i])
      /\ \E r \in 1..Len(recorded) :
           SameTrip(syncs[k].trips[i], recorded[r].trip, pathHeap)

\* C28: a malformed stored queue is treated as an empty queue: a record()
\* call that returns without having written the trip to the remote store
\* leaves a queue that contains the trip, and a drain that finds the
\* malformed value returns and writes nothing.
C28_MalformedQueueAsEmpty ==
  [][/\ \A i \in 1..Len(endTrips) :
          (/\ pendingTrips.kind = "malformed"
           /\ \A j \in 1..Len(endTrips') :
                endTrips'[j].trip # endTrips[i].trip
           /\ ~InRemoteOf(remoteTrips', endTrips[i].trip))
            => InQueueOf(pendingTrips', endTrips[i].trip)
     /\ \A k \in 1..Len(syncs) :
          (/\ pendingTrips.kind = "malformed"
           /\ syncs[k].pc = "getUser"
           /\ syncs'[k].pc # "getUser")
            => /\ syncs'[k].pc = "done"
               /\ remoteTrips' = remoteTrips]_vars

\* A syncPendingTrips() call is draining: it is inside its loop, awaiting
\* the getUser() or the insert() of a save, or the save's return.
Draining(k) == syncs[k].pc \in {"saveGetUser", "saveInsert", "saved"}

\* C29: at no time are two syncPendingTrips() calls draining the queue.
C29_SyncNotReentered ==
  \A a, b \in 1..Len(syncs) : (Draining(a) /\ Draining(b)) => a = b

\* C30: a syncPendingTrips() call whose getUser() finds no principal
\* returns there, and the queue and the remote store are as they were.
C30_SyncWithoutPrincipalNoOp ==
  [][\A k \in 1..Len(syncs) :
       (syncs[k].pc = "getUser" /\ syncs'[k].auth = "none") =>
         /\ syncs'[k].pc = "done"
         /\ syncs'[k].trips = <<>>
         /\ pendingTrips' = pendingTrips
         /\ remoteTrips' = remoteTrips]_vars

\* C30 witness: a call without a principal has returned and the queue it
\* found still holds a trip.
C30_Witness ==
  \E k \in 1..Len(syncs) :
    /\ syncs[k].pc = "done"
    /\ syncs[k].auth = "none"
    /\ pendingTrips.kind = "json"
    /\ pendingTrips.trips # <<>>
    /\ remoteTrips = <<>>

\* The last `limit` entries of window md followed by j copies of reading r.
LatestOf(md, r, j, limit) ==
  LET all == md \o [i \in 1..j |-> r]
      from == IF Len(all) > limit THEN Len(all) - limit + 1 ELSE 1
  IN SubSeq(all, from, Len(all))

\* C31: the Motion Window never holds more than 50 readings, and a motion
\* sample either leaves it as it was (an event without acceleration) or
\* puts its reading at the end, once per registered listener, evicting
\* from the front exactly the readings that no longer fit.
C31_WindowIsFifo ==
  /\ [](Len(motionData) <= 50)
  /\ [][MotionStep =>
         \/ motionData' = motionData
         \/ /\ motionData' # <<>>
            /\ motionData' = LatestOf(motionData,
                                      motionData'[Len(motionData')],
                                      motionListeners, 50)]_vars

\* C31 witness: a full window [a x 49, 0] has taken two different readings
\* from one listener and lost its two oldest.
C31_Witness ==
  /\ motionListeners = 1
  /\ counts.motion = 2
  /\ Len(motionData) = 50
  /\ motionData[47].acceleration.x = -20
  /\ motionData[48].acceleration.x = 0
  /\ motionData[49].acceleration.z = 8
  /\ motionData[50].acceleration.y = 60

\* C32: each kind of event has one callback slot: a geo sample is
\* delivered to the callback last handed to onLocationUpdate and to no
\* other, and a trip that the sample closes to the callback last handed to
\* onTripDetected and to no other, once.
C32_SingleCallbackSlot ==
  [][SampleStep =>
       /\ located' = IF registered.location = 0 THEN located
                     ELSE [cb |-> registered.location,
                           position |-> trail'.sample]
       /\ Len(delivered') <= Len(delivered) + 1
       /\ Len(delivered') >= Len(delivered)
       /\ \A d \in (Len(delivered) + 1)..Len(delivered') :
            /\ registered.trip # 0
            /\ delivered'[d].cb = registered.trip
       /\ (Len(recorded') > Len(recorded) /\ registered.trip # 0)
            => Len(delivered') = Len(delivered) + 1]_vars

\* C32 witness: a trip was delivered to callback A, then B was registered
\* over A for both kinds of event, and the next trip and the next sample
\* went to B.
C32_Witness ==
  /\ Len(delivered) = 2
  /\ delivered[1].cb = 1
  /\ delivered[2].cb = 2
  /\ located # Null
  /\ located.cb = 2
  /\ registered = [trip |-> 2, location |-> 2]

\* C33: whatever the interleaving of startTracking() and stopTracking()
\* calls, there is one active location watch when isTracking is true and
\* none otherwise, and the active watch is the one watchId names.
C33_OneWatchIffTracking ==
  /\ Cardinality(watches) = (IF isTracking THEN 1 ELSE 0)
  /\ isTracking => watches = {watchId}

\* C34: when the persistence call of an endTrip has returned and the
\* endTrip resumes, the reset clears only the draft that this endTrip
\* closed: a draft with another path, opened meanwhile in a tracking
\* session with its one location watch, stays in place.
C34_ResetClearsOwnDraft ==
  [][(/\ endResumes # <<>>
      /\ endResumes' = Tail(endResumes)
      /\ isTracking
      /\ watches = {watchId}
      /\ currentTrip # Null
      /\ currentTrip.path.ref # Head(endResumes).path.ref)
       => currentTrip' = currentTrip]_vars

\* C35: stopTracking() leaves lastPosition as it is, and the first sample
\* p of the next tracking session is evaluated against the last sample
\* prev of the session before: more than 200 m from prev it opens a draft
\* with the coordinates of prev as origin and the timestamp of prev as
\* startTime, otherwise it opens none.  (Distances in micrometres.)
C35_SessionsShareLastPosition ==
  /\ [](StopTrackingState(EngineState).lastPosition = lastPosition)
  /\ [][(SampleStep /\ trail.stopped /\ isTracking /\ currentTrip = Null) =>
         LET prev == trail.sample
             p == trail'.sample
         IN IF Abs(p.lng - prev.lng) * MM_PER_UNIT > 200 * 1000 * 1000
            THEN /\ currentTrip' # Null
                 /\ currentTrip'.origin.coordinates =
                      [lat |-> prev.lat, lng |-> prev.lng]
                 /\ currentTrip'.startTime = DateOf(prev.timestamp)
            ELSE currentTrip' = Null]_vars

\* C35 witness: the first sample of a second session has opened a draft
\* that starts at the last sample of the first session.
C35_Witness ==
  /\ trail.resumed
  /\ isTracking
  /\ watches = {watchId}
  /\ lastBranch = "start"
  /\ currentTrip # Null
  /\ currentTrip.startTime.ms < lastPosition.timestamp
  /\ Len(Deref(pathHeap, currentTrip.path)) = 2

\* C36: whenever a draft is in place and no endTrip call is pending, the
\* last point of the draft's path has the coordinates and the timestamp of
\* lastPosition.
C36_PathEndsAtLastPosition ==
  (currentTrip # Null /\ endTrips = <<>> /\ endResumes = <<>>) =>
    LET path == Deref(pathHeap, currentTrip.path) IN
      /\ path # <<>>
      /\ lastPosition # Null
      /\ path[Len(path)] = PathPoint(lastPosition)

\* C36 witness: a first trip has been closed and saved, and a second draft
\* is open.
C36_Witness ==
  /\ recorded # <<>>
  /\ endTrips = <<>>
  /\ endResumes = <<>>
  /\ currentTrip # Null
  /\ currentTrip.path.ref # recorded[1].trip.path.ref
  /\ Deref(pathHeap, currentTrip.path)[2] = PathPoint(lastPosition)

\* C37: when a sample closes a trip, the trip's path, as emitted, ends with
\* the sample before the closing one; destination and endTime are those of
\* the closing sample, distance and mode are computed from that path, and
\* endTime is more than 5 minutes after the last path timestamp.
C37_ClosingSampleNotInPath ==
  [][(SampleStep /\ Len(recorded') > Len(recorded)) =>
       LET prev == lastPosition
           p == lastPosition'
           trip == recorded'[Len(recorded')].trip
           path == recorded'[Len(recorded')].seen
       IN /\ path # <<>>
          /\ path[Len(path)] = PathPoint(prev)
          /\ trip.destination.coordinates = [lat |-> p.lat, lng |-> p.lng]
          /\ trip.endTime = DateOf(p.timestamp)
          /\ trip.distance = CalculateTotalDistance(path)
          /\ trip.mode = DetectTransportMode(path, motionData)
          /\ trip.endTime.ms - path[Len(path)].timestamp > 5 * 60 * 1000]_vars

\* C38: calculateCO2Emission returns the mode's emission factor times the
\* distance: 0 for walk and for bike, 120 x distance for car, 80 x distance
\* for bus, 40 x distance for train and 90 x distance for other.
C38_EmissionIsFactorTimesDistance ==
  (classified # Null /\ classified.kind = "co2") =>
    classified.grams =
      (CASE classified.mode = "walk" -> 0
         [] classified.mode = "bike" -> 0
         [] classified.mode = "car" -> 120
         [] classified.mode = "bus" -> 80
         [] classified.mode = "train" -> 40
         [] classified.mode = "other" -> 90) * classified.distance
====
